---------------------------- MODULE Spec2Model ----------------------------
(***************************************************************************)
(* EmployeeGroupingSystem (src/src/group_employees.py) as a state machine. *)
(*                                                                         *)
(* The state is one EmployeeGroupingSystem instance: its attributes        *)
(* scalers, encoders, models, config, feature_importance, the attribute    *)
(* previous_groups that update_groups creates, the attribute current_data  *)
(* that _merge_groupings reads, and the file that save_model writes.       *)
(* `call` records the last method call: its name, its arguments and its    *)
(* outcome (the returned value, or the exception that left the method).    *)
(*                                                                         *)
(* Numbers.  Labels, encoder codes and raw cell values are integers.       *)
(* Merge weights are given in tenths (5 is 0.5).  Means, standard          *)
(* deviations and scores are kept as exact fractions, so that two of them  *)
(* are compared by cross multiplication; NaN is a value of its own.        *)
(* The clustering primitives of scikit-learn (KMeans, DBSCAN) are outside  *)
(* the repository: their results are inputs chosen from bounded sets.      *)
(***************************************************************************)
EXTENDS Integers, Sequences, FiniteSets, TLC

VARIABLES
    encoders,            \* self.encoders: column name -> fitted classes_ (sorted)
    scalers,             \* self.scalers: "numeric_scaler" -> fitted parameters
    models,              \* self.models
    config,              \* self.config
    feature_importance,  \* self.feature_importance
    previous_groups,     \* self.previous_groups (NoAttr until update_groups sets it)
    current_data,        \* self.current_data (NoAttr: no method assigns it)
    disk,                \* the file written by save_model (NoFile before)
    call                 \* the last call: [op, args, status, value]

vars == <<encoders, scalers, models, config, feature_importance,
          previous_groups, current_data, disk, call>>

(***************************************************************************)
(* Bounds of the model.                                                    *)
(***************************************************************************)
MaxLabels == 3          \* longest label sequence handed to _merge_groupings
MaxLabel == 2           \* largest cluster label
MaxPoints == 34         \* largest record count handed to _determine_optimal_clusters
MaxRows == 3            \* most records in a profiled data set
MaxRecords == 3         \* most records in a batch handed to the session

NoAttr == [attr |-> "missing"]      \* an attribute that was never assigned
NoValue == [value |-> "none"]       \* the call raised: nothing was returned
NoFile == [file |-> "missing"]
EmptyDict == [k \in {} |-> 0]       \* {}

Min(a, b) == IF a <= b THEN a ELSE b
Abs(a) == IF a < 0 THEN -a ELSE a
Range(s) == {s[i] : i \in 1..Len(s)}

RECURSIVE SumSeq(_)
SumSeq(s) == IF s = <<>> THEN 0 ELSE Head(s) + SumSeq(Tail(s))

SumSq(s) == SumSeq([i \in 1..Len(s) |-> s[i] * s[i]])

\* The indices of s, in order, that hold v.
IndicesOf(s, v) ==
    LET F[i \in 0..Len(s)] ==
            IF i = 0 THEN <<>>
            ELSE IF s[i] = v THEN Append(F[i - 1], i) ELSE F[i - 1]
    IN F[Len(s)]

(***************************************************************************)
(* Python's built-in round() of the fraction num/den (den > 0): to the     *)
(* nearest integer, a tie to the even neighbour.                           *)
(***************************************************************************)
round(num, den) ==
    LET q == num \div den
        r == num % den
    IN IF 2 * r < den THEN q
       ELSE IF 2 * r > den THEN q + 1
       ELSE IF q % 2 = 0 THEN q ELSE q + 1

\* zip(a, b): pairs up to the shorter of the two.
zip(a, b) == [i \in 1..Min(Len(a), Len(b)) |-> <<a[i], b[i]>>]

(***************************************************************************)
(* Floating-point values as exact fractions.                               *)
(***************************************************************************)
NaN == [nan |-> TRUE, num |-> 0, den |-> 1]
Frac(n, d) == [nan |-> FALSE, num |-> n, den |-> d]
SameNumber(a, b) ==
    IF a.nan \/ b.nan THEN a.nan /\ b.nan
    ELSE a.num * b.den = b.num * a.den
\* Python's a < b on floats: False whenever either side is NaN.
Less(a, b) == ~a.nan /\ ~b.nan /\ a.num * b.den < b.num * a.den

\* Series.mean() of a non-empty column of integers.
Mean(v) == Frac(SumSeq(v), Len(v))
\* The square of Series.std() (ddof = 1); NaN for fewer than two values.
StdSquared(v) ==
    IF Len(v) < 2 THEN NaN
    ELSE Frac(Len(v) * SumSq(v) - SumSeq(v) * SumSeq(v), Len(v) * (Len(v) - 1))

Column(rows, c) == [i \in 1..Len(rows) |-> rows[i][c]]

(***************************************************************************)
(* sorted(items, key = score, reverse = True): a stable sort, the higher   *)
(* score first, equal scores (and NaN, which compares False with anything) *)
(* in their original order.                                                *)
(***************************************************************************)
RECURSIVE InsertDesc(_, _)
InsertDesc(sorted, item) ==
    IF sorted = <<>> THEN <<item>>
    ELSE LET last == sorted[Len(sorted)]
         IN IF Less(last.score, item.score)
            THEN Append(InsertDesc(SubSeq(sorted, 1, Len(sorted) - 1), item), last)
            ELSE Append(sorted, item)

RECURSIVE SortedDesc(_)
SortedDesc(items) ==
    IF items = <<>> THEN <<>>
    ELSE InsertDesc(SortedDesc(SubSeq(items, 1, Len(items) - 1)), items[Len(items)])

Top3(items) == SubSeq(items, 1, Min(3, Len(items)))

(***************************************************************************)
(* _identify_dominant_features(group_data).  group_data is the group's own *)
(* rows only.  z_score = abs((mean - mean) / std) with both means taken    *)
(* over the group: 0 / std, which is 0 for a positive std and NaN for a    *)
(* std of 0 or NaN.                                                        *)
(***************************************************************************)
ZScore(v) ==
    LET sd2 == StdSquared(v)
        delta == SumSeq(v) * Len(v) - SumSeq(v) * Len(v)  \* mean - mean, times Len^2
    IN IF sd2.nan \/ sd2.num = 0 THEN NaN ELSE Frac(Abs(delta), 1)

_identify_dominant_features(columns, group_rows) ==
    LET feature_importance_ ==
            [c \in 1..Len(columns) |->
                [feature |-> columns[c], score |-> ZScore(Column(group_rows, c))]]
    IN Top3(SortedDesc(feature_importance_))

(***************************************************************************)
(* _analyze_group_profiles(data, labels): one profile for each value of    *)
(* np.unique(labels) but -1, over the rows data[labels == label].          *)
(* The key f'group_{label}' is the pair <<"group_", label>>.  The          *)
(* statistics are those of the cells the frame keeps; `scaler` says how    *)
(* the frame's cells, and so these statistics, are to be read.             *)
(***************************************************************************)
GroupKey(label) == <<"group_", label>>

\* data[labels == label]
group_data(data, labels, label) ==
    LET idx == IndicesOf(labels, label)
    IN [j \in 1..Len(idx) |-> data.rows[idx[j]]]

\* The profile of one group (lines 200-205).
Profile(data, rows) ==
    [size |-> Len(rows),
     avg_values |-> [c \in 1..Len(data.columns) |-> Mean(Column(rows, c))],
     std_values |-> [c \in 1..Len(data.columns) |-> StdSquared(Column(rows, c))],
     dominant_features |-> _identify_dominant_features(data.columns, rows),
     scaler |-> data.scaler]

\* The loop without its `continue`: the noise label gets a profile too.
AnalyzeKeepingNoise(data, labels) ==
    [key \in {GroupKey(l) : l \in Range(labels)} |->
        Profile(data, group_data(data, labels, key[2]))]

_analyze_group_profiles(data, labels) ==
    LET unique == Range(labels) \ {-1}
    IN [key \in {GroupKey(l) : l \in unique} |->
          Profile(data, group_data(data, labels, key[2]))]

(***************************************************************************)
(* _merge_groupings(previous, current, weight_previous, weight_current).   *)
(* The weights are in tenths.  The loop pairs the labels with zip; the     *)
(* returned dict then reads self.current_data, which raises AttributeError *)
(* when the attribute does not exist.  merged_labels is the local list at  *)
(* the moment the method is left.                                          *)
(***************************************************************************)
_merge_groupings(self_current_data, previous, current, weight_previous, weight_current) ==
    LET pairs == zip(previous.labels, current.labels)
        merged_labels ==
            [i \in 1..Len(pairs) |->
                round(pairs[i][1] * weight_previous + pairs[i][2] * weight_current, 10)]
    IN IF self_current_data = NoAttr
       THEN [status |-> "AttributeError", merged_labels |-> merged_labels,
             value |-> NoValue]
       ELSE IF merged_labels # <<>> /\ Len(self_current_data.rows) # Len(merged_labels)
       THEN [status |-> "ValueError", merged_labels |-> merged_labels,
             value |-> NoValue]
       ELSE [status |-> "ok", merged_labels |-> merged_labels,
             value |-> [labels |-> merged_labels,
                        group_profiles |->
                            _analyze_group_profiles(self_current_data, merged_labels),
                        method_used |-> "merged"]]

(***************************************************************************)
(* _determine_optimal_clusters(data).  n is len(data); inertia_[k] is the  *)
(* inertia KMeans(n_clusters = k) reports on the data.  np.argmin of an    *)
(* empty array raises ValueError.                                          *)
(***************************************************************************)
max_clusters(n) == Min(10, n \div 5)

\* np.diff
np_diff(a) == [i \in 1..(Len(a) - 1) |-> a[i + 1] - a[i]]

\* np.argmin: the first position (from 0) of the minimum.
argmin(a) ==
    CHOOSE i \in 0..(Len(a) - 1) :
        /\ \A j \in 0..(Len(a) - 1) : a[i + 1] <= a[j + 1]
        /\ \A j \in 0..(i - 1) : a[j + 1] > a[i + 1]

_determine_optimal_clusters(n, inertia_) ==
    LET inertias == [i \in 1..(max_clusters(n) - 1) |-> inertia_[i + 1]]
        diffs == np_diff(inertias)
    IN IF Len(diffs) = 0
       THEN [status |-> "ValueError", value |-> NoValue]
       ELSE [status |-> "ok", value |-> argmin(diffs) + 2]

(***************************************************************************)
(* Data frames.  A frame is [columns, dtypes, rows, scaler]: rows[i][c] is *)
(* the cell of record i in column c.  Input batches have an object column  *)
(* "department" and an int64 column "performance", no missing value and no *)
(* hire_date column, so the fillna loop and the tenure step of             *)
(* preprocess_data change nothing.  A frame whose scaler is not NoScaling  *)
(* holds standardized columns: the cell kept is the integer x and its      *)
(* value is (x - mean_) / scale_ of the column's fitted statistics.        *)
(***************************************************************************)
NoScaling == [fitted |-> FALSE]

\* The department names in sorted (alphabetical) order, as np.unique sorts them.
DepartmentNames == <<"IT", "Sales">>
\* The records a batch is made of.
SampleRecords == {<<"IT", 1>>, <<"Sales", 3>>}

InputColumns == <<"department", "performance">>
InputDtypes == <<"object", "int64">>

Batches ==
    UNION {{[columns |-> InputColumns, dtypes |-> InputDtypes, rows |-> r,
             scaler |-> NoScaling] :
                r \in [1..n -> SampleRecords]} :
           n \in 1..MaxRecords}

len(data) == Len(data.rows)

(***************************************************************************)
(* LabelEncoder.fit_transform(values): classes_ are the sorted distinct    *)
(* values, the code of a value is its position in classes_ (from 0).       *)
(***************************************************************************)
IndexOf(s, v) == CHOOSE i \in 1..Len(s) : s[i] = v

fit_transform(values) ==
    LET classes_ == SelectSeq(DepartmentNames, LAMBDA d : d \in Range(values))
    IN [classes_ |-> classes_,
        codes |-> [i \in 1..Len(values) |-> IndexOf(classes_, values[i]) - 1]]

Code(encoder, v) == IndexOf(encoder.classes_, v) - 1

(***************************************************************************)
(* StandardScaler.fit: per column the count, the sum and the sum of        *)
(* squares, which fix mean_ = sum / n and var_ = (n * sumsq - sum^2) / n^2 *)
(* (scale_ is 1 for a variance of 0).  A real value is kept as its sign    *)
(* and its square, a fraction.                                             *)
(***************************************************************************)
Sign(x) == IF x > 0 THEN 1 ELSE IF x < 0 THEN -1 ELSE 0
Real(sgn, sqnum, sqden) == [sgn |-> sgn, sq |-> Frac(sqnum, sqden)]
RealOfInt(x) == Real(Sign(x), x * x, 1)
SameReal(a, b) == a.sgn = b.sgn /\ SameNumber(a.sq, b.sq)

ColumnStats(v) == [n |-> Len(v), sum |-> SumSeq(v), sumsq |-> SumSq(v)]

\* StandardScaler.transform of the integer x under fitted statistics st.
Standardize(x, st) ==
    LET centred == st.n * x - st.sum
        d == st.n * st.sumsq - st.sum * st.sum
    IN IF d = 0 THEN Real(Sign(centred), centred * centred, st.n * st.n)
       ELSE Real(Sign(centred), centred * centred, d)

\* The value of cell (i, c) of a frame.
CellValue(data, i, c) ==
    IF data.scaler = NoScaling THEN RealOfInt(data.rows[i][c])
    ELSE Standardize(data.rows[i][c], data.scaler.stats[c])

(***************************************************************************)
(* preprocess_data(data), on the instance attributes self_encoders and     *)
(* self_scalers: the attributes after the call and the returned frame.     *)
(***************************************************************************)
preprocess_data(self_encoders, self_scalers, data) ==
    LET cols == 1..Len(data.columns)
        categorical_columns == {c \in cols : data.dtypes[c] = "object"}
        \* line 106: fit_transform on every call, whether or not the encoder existed
        fitted == [c \in categorical_columns |-> fit_transform(Column(data.rows, c))]
        encoders_ ==
            [name \in DOMAIN self_encoders \cup {data.columns[c] : c \in categorical_columns} |->
                IF \E c \in categorical_columns : data.columns[c] = name
                THEN LET c == CHOOSE c \in categorical_columns : data.columns[c] = name
                     IN [classes_ |-> fitted[c].classes_]
                ELSE self_encoders[name]]
        encoded_rows ==
            [i \in 1..Len(data.rows) |->
                [c \in cols |-> IF c \in categorical_columns THEN fitted[c].codes[i]
                                ELSE data.rows[i][c]]]
        encoded_dtypes ==
            [c \in cols |-> IF c \in categorical_columns THEN "int64" ELSE data.dtypes[c]]
        numeric_columns == {c \in cols : encoded_dtypes[c] \in {"int64", "float64"}}
        first_fit == "numeric_scaler" \notin DOMAIN self_scalers
        scaler == [fitted |-> TRUE,
                   stats |-> [c \in numeric_columns |-> ColumnStats(Column(encoded_rows, c))]]
    IN [encoders |-> encoders_,
        scalers |-> IF first_fit THEN ("numeric_scaler" :> scaler) @@ self_scalers
                    ELSE self_scalers,
        value |-> [columns |-> data.columns,
                   dtypes |-> IF first_fit
                              THEN [c \in cols |-> IF c \in numeric_columns THEN "float64"
                                                   ELSE encoded_dtypes[c]]
                              ELSE encoded_dtypes,
                   rows |-> encoded_rows,
                   scaler |-> IF first_fit THEN scaler ELSE NoScaling]]

(***************************************************************************)
(* _optimize_dbscan_params(data): NearestNeighbors(n_neighbors = 2) needs  *)
(* two records (kneighbors raises ValueError on fewer); eps is a           *)
(* percentile of float distances and is not kept; min_samples is           *)
(* max(3, int(len(data) * 0.01)), which is 3 below 400 records.            *)
(***************************************************************************)
_optimize_dbscan_params(n) ==
    IF n < 2 THEN [status |-> "ValueError", min_samples |-> 0]
    ELSE [status |-> "ok", min_samples |-> IF n \div 100 > 3 THEN n \div 100 ELSE 3]

\* What method = 'auto' resolves to (lines 129-134).
ResolveMethod(n, method) ==
    IF method = "auto" THEN (IF n > 1000 THEN "kmeans" ELSE "dbscan") ELSE method

Methods == {"auto", "kmeans", "dbscan", "gmm"}

(***************************************************************************)
(* What the clustering primitives can return for n records.  Labels are    *)
(* dense from 0.  KMeans(n_clusters = k) uses labels below k.  DBSCAN      *)
(* marks noise -1, and a cluster grows around a core record, which has     *)
(* min_samples records in its neighbourhood.  With min_samples = 3 (its    *)
(* value below 400 records) a record that is not core has at most one      *)
(* neighbour, so no two clusters share one: every cluster has at least     *)
(* min_samples members.                                                    *)
(***************************************************************************)
Dense(labels) == \A l \in Range(labels) : l <= 0 \/ (l - 1) \in Range(labels)

KMeansLabels(n, k) ==
    {l \in [1..n -> 0..Min(k - 1, MaxLabel)] : Dense(l)}

DBSCANLabels(n, min_samples) ==
    {l \in [1..n -> -1..MaxLabel] :
        /\ Dense(l)
        /\ \A c \in Range(l) \ {-1} :
              Cardinality({i \in 1..n : l[i] = c}) >= min_samples}

InertiaValues == {73, 74, 75, 80, 100}

\* Inertias KMeans can report for k = 2..max_clusters(n): they do not grow with k.
KMeansInertias(n) ==
    {f \in [2..max_clusters(n) -> InertiaValues] :
        \A k \in 2..(max_clusters(n) - 1) : f[k + 1] <= f[k]}

(***************************************************************************)
(* identify_groups(data, method).  inertia_ and fit_predict are what the   *)
(* clustering primitives return when they are run.  A method that is       *)
(* neither 'kmeans' nor 'dbscan' leaves `labels` unbound, and line 149     *)
(* raises UnboundLocalError.  The timestamp is not kept.                   *)
(***************************************************************************)
identify_groups(data, method, inertia_, fit_predict) ==
    LET method_ == ResolveMethod(len(data), method)
        n_clusters == _determine_optimal_clusters(len(data), inertia_)
        params == _optimize_dbscan_params(len(data))
        result == [status |-> "ok",
                   value |-> [labels |-> fit_predict,
                              group_profiles |-> _analyze_group_profiles(data, fit_predict),
                              method_used |-> method_]]
    IN IF method_ = "kmeans"
       THEN (IF n_clusters.status # "ok" THEN [status |-> n_clusters.status, value |-> NoValue]
             ELSE result)
       ELSE IF method_ = "dbscan"
       THEN (IF params.status # "ok" THEN [status |-> params.status, value |-> NoValue]
             ELSE result)
       ELSE [status |-> "UnboundLocalError", value |-> NoValue]

\* The label sequences the primitive run by identify_groups can return.
FitPredict(n, method, inertia_) ==
    LET method_ == ResolveMethod(n, method)
        n_clusters == _determine_optimal_clusters(n, inertia_)
        params == _optimize_dbscan_params(n)
    IN IF method_ = "kmeans" /\ n_clusters.status = "ok"
       THEN KMeansLabels(n, n_clusters.value)
       ELSE IF method_ = "dbscan" /\ params.status = "ok"
       THEN DBSCANLabels(n, params.min_samples)
       ELSE {<<>>}

(***************************************************************************)
(* update_groups(new_data): the attributes after the call and its outcome. *)
(* An exception leaves previous_groups as it was; the encoders and scalers *)
(* that preprocess_data set stay set.                                      *)
(***************************************************************************)
update_groups(self_encoders, self_scalers, self_previous_groups, self_current_data, new_data, inertia_, fit_predict) ==
    LET pre == preprocess_data(self_encoders, self_scalers, new_data)
        current_groups == identify_groups(pre.value, "auto", inertia_, fit_predict)
        merged == _merge_groupings(self_current_data, self_previous_groups,
                                   current_groups.value, 3, 7)
        updated_groups ==
            IF self_previous_groups # NoAttr
            THEN (IF current_groups.status # "ok" THEN current_groups
                  ELSE [status |-> merged.status, value |-> merged.value])
            ELSE current_groups
    IN [encoders |-> pre.encoders,
        scalers |-> pre.scalers,
        previous_groups |-> IF updated_groups.status = "ok" THEN updated_groups.value
                            ELSE self_previous_groups,
        status |-> updated_groups.status,
        value |-> updated_groups.value]

(***************************************************************************)
(* save_model / load_model.  The persisted dict has the five entries of    *)
(* ModelKeys.  load_model assigns them in this order, one statement each;  *)
(* a missing entry raises KeyError at its statement, a file that cannot be *)
(* read raises before the first; the except clause logs and re-raises.     *)
(***************************************************************************)
ModelKeys == <<"scalers", "encoders", "models", "config", "feature_importance">>

save_model(self) == [k \in Range(ModelKeys) |-> self[k]]

load_model(self, model_data) ==
    IF model_data = NoFile THEN [status |-> "FileNotFoundError", self |-> self]
    ELSE LET missing == {i \in 1..Len(ModelKeys) : ModelKeys[i] \notin DOMAIN model_data}
             stop == IF missing = {} THEN Len(ModelKeys) + 1
                     ELSE CHOOSE i \in missing : \A j \in missing : i <= j
         IN [status |-> IF missing = {} THEN "ok" ELSE "KeyError",
             self |-> [k \in Range(ModelKeys) |->
                          IF IndexOf(ModelKeys, k) < stop THEN model_data[k] ELSE self[k]]]

\* _load_config(None): the default configuration (feature weights in tenths).
default_config ==
    [clustering_methods |-> <<"kmeans", "dbscan">>,
     feature_weights |-> [performance |-> 15, experience |-> 12, skills |-> 13,
                          department |-> 10],
     min_group_size |-> 3, max_group_size |-> 50, update_frequency |-> "weekly"]

(***************************************************************************)
(* The instance after __init__ (lines 35-40), before any call.             *)
(***************************************************************************)
Idle == [op |-> "none", args |-> NoValue, status |-> "ok", value |-> NoValue]

Init ==
    /\ encoders = EmptyDict
    /\ scalers = EmptyDict
    /\ models = EmptyDict
    /\ config = default_config
    /\ feature_importance = EmptyDict
    /\ previous_groups = NoAttr
    /\ current_data = NoAttr
    /\ disk = NoFile
    /\ call = Idle

self == [scalers |-> scalers, encoders |-> encoders, models |-> models,
         config |-> config, feature_importance |-> feature_importance]

(***************************************************************************)
(* The public methods, each called with inputs from the bounded sets.      *)
(***************************************************************************)
PreprocessData ==
    \E data \in Batches :
        LET r == preprocess_data(encoders, scalers, data)
        IN /\ encoders' = r.encoders
           /\ scalers' = r.scalers
           /\ call' = [op |-> "preprocess_data", args |-> [n |-> len(data)],
                       status |-> "ok", value |-> r.value]
           /\ UNCHANGED <<models, config, feature_importance, previous_groups,
                          current_data, disk>>

\* identify_groups on the frame the last preprocess_data call returned.
IdentifyGroups ==
    /\ call.op = "preprocess_data"
    /\ \E method \in Methods :
         \E inertia_ \in KMeansInertias(len(call.value)) :
           \E fit_predict \in FitPredict(len(call.value), method, inertia_) :
              LET r == identify_groups(call.value, method, inertia_, fit_predict)
              IN call' = [op |-> "identify_groups",
                          args |-> [n |-> len(call.value), method |-> method],
                          status |-> r.status, value |-> r.value]
    /\ UNCHANGED <<encoders, scalers, models, config, feature_importance,
                   previous_groups, current_data, disk>>

UpdateGroups ==
    \E new_data \in Batches :
      \E inertia_ \in KMeansInertias(len(new_data)) :
        \E fit_predict \in FitPredict(len(new_data), "auto", inertia_) :
           LET r == update_groups(encoders, scalers, previous_groups, current_data,
                                  new_data, inertia_, fit_predict)
           IN /\ encoders' = r.encoders
              /\ scalers' = r.scalers
              /\ previous_groups' = r.previous_groups
              /\ call' = [op |-> "update_groups", args |-> [n |-> len(new_data)],
                          status |-> r.status, value |-> r.value]
              /\ UNCHANGED <<models, config, feature_importance, current_data, disk>>

SaveModel ==
    /\ disk' = save_model(self)
    /\ call' = [op |-> "save_model", args |-> NoValue, status |-> "ok", value |-> NoValue]
    /\ UNCHANGED <<encoders, scalers, models, config, feature_importance,
                   previous_groups, current_data>>

\* The file at `path`: none, the one save_model wrote, or one that lacks entries.
Readable ==
    IF disk = NoFile THEN {NoFile}
    ELSE {[k \in keys |-> disk[k]] : keys \in SUBSET Range(ModelKeys)}

LoadModel ==
    \E model_data \in Readable :
        LET r == load_model(self, model_data)
        IN /\ scalers' = r.self.scalers
           /\ encoders' = r.self.encoders
           /\ models' = r.self.models
           /\ config' = r.self.config
           /\ feature_importance' = r.self.feature_importance
           /\ call' = [op |-> "load_model", args |-> NoValue,
                       status |-> r.status, value |-> NoValue]
           /\ UNCHANGED <<previous_groups, current_data, disk>>

\* Preprocessing and grouping.
Next == PreprocessData \/ IdentifyGroups \/ UpdateGroups

Spec == Init /\ [][Next]_vars

\* Preprocessing and persistence.
NextPersist == PreprocessData \/ SaveModel \/ LoadModel

SpecPersist == Init /\ [][NextPersist]_vars

(***************************************************************************)
(* The private methods called on their own, as the first call on a fresh   *)
(* instance.                                                               *)
(***************************************************************************)
LabelSeqs(maxlen) == UNION {[1..n -> -1..MaxLabel] : n \in 0..maxlen}

\* Tenths: 0.3, 0.5, 0.7.  With labels of at most MaxLabel a blend ends in .5
\* only when the product with 0.3 or 0.7 is 0, so every tie of the model is a
\* tie of the floating-point sum too.
Weights == {3, 5, 7}

MergeGroupings ==
    /\ call.op = "none"
    /\ \E previous \in LabelSeqs(MaxLabels), current \in LabelSeqs(MaxLabels) :
         \E weight_previous \in Weights, weight_current \in Weights :
           LET r == _merge_groupings(current_data, [labels |-> previous],
                                     [labels |-> current], weight_previous, weight_current)
           IN call' = [op |-> "_merge_groupings",
                       args |-> [previous |-> previous, current |-> current,
                                 weight_previous |-> weight_previous,
                                 weight_current |-> weight_current],
                       status |-> r.status, value |-> r.value,
                       merged_labels |-> r.merged_labels]
    /\ UNCHANGED <<encoders, scalers, models, config, feature_importance,
                   previous_groups, current_data, disk>>

SpecMerge == Init /\ [][MergeGroupings]_vars

DetermineOptimalClusters ==
    /\ call.op = "none"
    /\ \E n \in 0..MaxPoints :
         \E inertia_ \in KMeansInertias(n) :
           LET r == _determine_optimal_clusters(n, inertia_)
           IN call' = [op |-> "_determine_optimal_clusters",
                       args |-> [n |-> n, inertia_ |-> inertia_],
                       status |-> r.status, value |-> r.value]
    /\ UNCHANGED <<encoders, scalers, models, config, feature_importance,
                   previous_groups, current_data, disk>>

SpecElbow == Init /\ [][DetermineOptimalClusters]_vars

ProfileColumns == <<"department", "performance", "experience", "skills">>
SampleRows == {<<0, 1, 1, 2>>, <<1, 1, 3, 2>>, <<2, 4, 1, 2>>}

ProfileFrames ==
    UNION {{[columns |-> ProfileColumns,
             dtypes |-> [c \in 1..Len(ProfileColumns) |-> "int64"],
             rows |-> r, scaler |-> NoScaling] : r \in [1..n -> SampleRows]} :
           n \in 0..MaxRows}

AnalyzeGroupProfiles ==
    /\ call.op = "none"
    /\ \E data \in ProfileFrames :
         \E labels \in [1..len(data) -> -1..MaxLabel] :
           call' = [op |-> "_analyze_group_profiles",
                    args |-> [data |-> data, labels |-> labels],
                    status |-> "ok", value |-> _analyze_group_profiles(data, labels)]
    /\ UNCHANGED <<encoders, scalers, models, config, feature_importance,
                   previous_groups, current_data, disk>>

SpecProfiles == Init /\ [][AnalyzeGroupProfiles]_vars

(***************************************************************************)
(* Properties.                                                             *)
(***************************************************************************)
MergeCalled == call.op = "_merge_groupings"

\* num/den (den > 0) rounded to the nearest integer, a tie away from zero.
RoundHalfAway(num, den) ==
    IF num >= 0 THEN (2 * num + den) \div (2 * den)
    ELSE -((2 * (-num) + den) \div (2 * den))

\* The blend of two labels, rounded half away from zero.
BlendHalfAway(args, i) ==
    RoundHalfAway(args.previous[i] * args.weight_previous
                    + args.current[i] * args.weight_current, 10)

\* C1: for label sequences of equal length, the labels _merge_groupings builds
\* for its result are, index by index, the weighted blend of the two labels
\* rounded half away from zero (0.5 to 1, 2.5 to 3, -0.5 to -1).
C1_MergeRoundsHalfAwayFromZero ==
    (MergeCalled /\ Len(call.args.previous) = Len(call.args.current)) =>
        call.merged_labels =
            [i \in 1..Len(call.args.previous) |-> BlendHalfAway(call.args, i)]

\* C2: a merge of label sequences of different length fails with an alignment
\* error and returns no assignment.
C2_MergeRejectsDifferentLengths ==
    (MergeCalled /\ Len(call.args.previous) # Len(call.args.current)) =>
        (call.status = "AlignmentError" /\ call.value = NoValue)

\* The drop of the inertia on reaching k clusters from k - 1.
Drop(inertia_, k) == inertia_[k - 1] - inertia_[k]

\* C3: elbow detection returns the k reached by the largest single drop of the
\* inertia (the most negative first difference).
C3_ElbowIsLargestDrop ==
    (call.op = "_determine_optimal_clusters" /\ call.status = "ok") =>
        LET kmax == max_clusters(call.args.n)
        IN /\ call.value \in 3..kmax
           /\ \A k \in 3..kmax :
                Drop(call.args.inertia_, call.value) >= Drop(call.args.inertia_, k)

Preprocessed == call.op \in {"preprocess_data", "update_groups"}

\* C4: a call that preprocesses a batch never changes the code of a value its
\* column's encoder had already encoded.
C4_EncodingDoesNotDrift ==
    [][Preprocessed' =>
        \A col \in DOMAIN encoders :
            \A v \in Range(encoders[col].classes_) \cap Range(encoders'[col].classes_) :
                Code(encoders'[col], v) = Code(encoders[col], v)]_vars

\* C5: every preprocess_data call returns its numeric columns standardized
\* with the parameters the session's scaler was fitted with.
C5_NumericColumnsStandardized ==
    call.op = "preprocess_data" =>
        /\ "numeric_scaler" \in DOMAIN scalers
        /\ \A i \in 1..len(call.value) :
             \A c \in DOMAIN scalers["numeric_scaler"].stats :
                SameReal(CellValue(call.value, i, c),
                         Standardize(call.value.rows[i][c],
                                     scalers["numeric_scaler"].stats[c]))

\* C6: an update_groups call on as many records as the stored previous
\* assignment has (or the first call) returns an assignment, which is then the
\* session's previous state.
C6_UpdateStoresItsResult ==
    (/\ call.op = "update_groups"
     /\ call.args.n >= 2
     /\ previous_groups # NoAttr => Len(previous_groups.labels) = call.args.n) =>
        (call.status = "ok" /\ previous_groups = call.value)

\* C7: a load_model call that fails leaves scalers, encoders, models, config
\* and feature_importance as they were.
C7_FailedLoadChangesNothing ==
    [][(call'.op = "load_model" /\ call'.status # "ok") =>
        UNCHANGED <<scalers, encoders, models, config, feature_importance>>]_vars

RECURSIVE SumSizes(_, _)
SumSizes(profiles, keys) ==
    IF keys = {} THEN 0
    ELSE LET k == CHOOSE k \in keys : TRUE
         IN profiles[k].size + SumSizes(profiles, keys \ {k})

\* C8: _analyze_group_profiles returns exactly one profile for each distinct
\* label but the noise label -1, none for -1, and the sizes of the profiles
\* sum to the number of records not labelled -1.
C8_ProfilesCoverNonNoiseLabels ==
    call.op = "_analyze_group_profiles" =>
        LET labels == call.args.labels
            profiles == call.value
            present == Range(labels) \ {-1}
        IN /\ \A l \in present : GroupKey(l) \in DOMAIN profiles
           /\ \A key \in DOMAIN profiles : key[2] \in present
           /\ Cardinality(DOMAIN profiles) = Cardinality(present)
           /\ \A l \in present :
                profiles[GroupKey(l)].size = Cardinality({i \in 1..Len(labels) : labels[i] = l})
           /\ SumSizes(profiles, DOMAIN profiles)
                = Len(labels) - Cardinality({i \in 1..Len(labels) : labels[i] = -1})

\* A data set with noise and two groups has been profiled.
C8_Witness ==
    /\ call.op = "_analyze_group_profiles"
    /\ -1 \in Range(call.args.labels)
    /\ Cardinality(DOMAIN call.value) >= 2

\* C9: on at least two records, identify_groups (with any of the four method
\* hints) and update_groups return an assignment with one label per record.
C9_OneLabelPerRecord ==
    (call.op \in {"identify_groups", "update_groups"} /\ call.args.n >= 2) =>
        (call.status = "ok" /\ Len(call.value.labels) = call.args.n)

\* The square of the score C10 names: |group mean - corpus mean| over the
\* standard deviation of the column over all records.
CorpusScoreSquared(all, group) ==
    LET n == Len(all)
        d == n * SumSq(all) - SumSeq(all) * SumSeq(all)
        delta == SumSeq(group) * n - SumSeq(all) * Len(group)
    IN IF d = 0 THEN NaN ELSE Frac(delta * delta, Len(group) * Len(group) * d)

CorpusDominant(data, rows) ==
    Top3(SortedDesc([c \in 1..Len(data.columns) |->
            [feature |-> data.columns[c],
             score |-> CorpusScoreSquared(Column(data.rows, c), Column(rows, c))]]))

Squared(x) == IF x.nan THEN NaN ELSE Frac(x.num * x.num, x.den * x.den)

\* C10: the dominant features of every group are the 3 columns with the
\* highest |group mean - corpus mean| / corpus standard deviation, each with
\* that score, equal scores in column declaration order.
C10_DominantByDeviationFromCorpus ==
    call.op = "_analyze_group_profiles" =>
        \A key \in DOMAIN call.value :
            LET got == call.value[key].dominant_features
                want == CorpusDominant(call.args.data,
                                       group_data(call.args.data, call.args.labels, key[2]))
            IN /\ Len(got) = Len(want)
               /\ \A j \in 1..Len(got) :
                    /\ got[j].feature = want[j].feature
                    /\ SameNumber(Squared(got[j].score), want[j].score)

=============================================================================
